---- MODULE Spec2Model ----
(***************************************************************************)
(* Model of src/app.py, the Streamlit resume screening script.             *)
(*                                                                         *)
(* A text is a sequence of one-character strings over Chars.  A PDF is a   *)
(* record [ok, pages]: PyPDF2.PdfReader raises on a PDF that is not ok and *)
(* otherwise yields the pages' texts.  Every browser session runs the      *)
(* script with its own namespace, so the script's variables are indexed by *)
(* session.  A run of the button handler is followed step by step: the     *)
(* guard (Press), one iteration of the loop over the uploads               *)
(* (ProcessFile), and the scoring, sorting and display (ScoreAndDisplay).  *)
(* Scores are cosine similarities in thousandths; idf weights are kept in  *)
(* tenths (fixed point instead of floating point).                         *)
(***************************************************************************)
EXTENDS Integers, Sequences, FiniteSets, Bags, TLC

\* Largest number of uploaded files.
MaxFiles == 2
\* Largest length of the job description.
MaxLen == 2
\* Number of browser sessions of the concurrent specification.
NumSessions == 2

Sessions == 1..NumSessions

\* The characters a text is made of: whitespace, a stop word letter, a
\* lower-case and an upper-case letter, and a character that is no letter.
Chars == {" ", "a", "b", "B", "1"}

\* The characters typed into the job description.
TypedChars == {" ", "a", "b", "1"}

VARIABLES
    active,          \* the sessions that exist
    uploaded_files,  \* per session: value of the file_uploader widget
    job_description, \* per session: value of the text_area widget
    pc,              \* per session: position of the script run
    file_idx,        \* per session: position of `for file in uploaded_files`
    resumes,         \* per session: cleaned resume texts
    resume_names,    \* per session: names of the processed files
    scores,          \* per session: result of calculate_similarity
    results,         \* per session: sorted (name, score) pairs
    displayed,       \* per session: the rows written under the subheader
    warning,         \* per session: whether st.warning was shown
    error,           \* per session: the exception that ended the run
    calls            \* per session: the helper calls that returned, in order

vars == <<active, uploaded_files, job_description, pc, file_idx, resumes,
          resume_names, scores, results, displayed, warning, error, calls>>

----------------------------------------------------------------------------
\* Sequences

Range(seq) == {seq[k] : k \in DOMAIN seq}

Front(seq) == SubSeq(seq, 1, Len(seq) - 1)

Last(seq) == seq[Len(seq)]

Count(seq, x) == Cardinality({k \in DOMAIN seq : seq[k] = x})

SeqsUpTo(S, n) == UNION {[1..k -> S] : k \in 0..n}

RECURSIVE SumSeq(_)
SumSeq(seq) == IF seq = <<>> THEN 0 ELSE Head(seq) + SumSeq(Tail(seq))

RECURSIVE SetToSeq(_)
SetToSeq(S) ==
    IF S = {} THEN <<>>
    ELSE LET x == CHOOSE y \in S : TRUE IN <<x>> \o SetToSeq(S \ {x})

RECURSIVE IsqrtIter(_, _, _)
IsqrtIter(x, lo, hi) ==
    IF lo >= hi THEN lo
    ELSE LET mid == (lo + hi + 1) \div 2
         IN IF mid * mid <= x THEN IsqrtIter(x, mid, hi)
            ELSE IsqrtIter(x, lo, mid - 1)

\* Integer square root of x, 0 <= x <= 1000000.
Isqrt(x) == IsqrtIter(x, 0, 1000)

----------------------------------------------------------------------------
\* Python string operations

\* str.lower
lower(text) == [k \in DOMAIN text |-> IF text[k] = "B" THEN "b" ELSE text[k]]

RECURSIVE lstrip(_)
lstrip(text) ==
    IF text # <<>> /\ Head(text) = " " THEN lstrip(Tail(text)) ELSE text

RECURSIVE rstrip(_)
rstrip(text) ==
    IF text # <<>> /\ Last(text) = " " THEN rstrip(Front(text)) ELSE text

\* str.strip
strip(text) == rstrip(lstrip(text))

RECURSIVE SplitAcc(_, _, _)
SplitAcc(text, cur, acc) ==
    IF text = <<>> THEN (IF cur = <<>> THEN acc ELSE Append(acc, cur))
    ELSE IF Head(text) = " "
         THEN SplitAcc(Tail(text), <<>>,
                       IF cur = <<>> THEN acc ELSE Append(acc, cur))
         ELSE SplitAcc(Tail(text), Append(cur, Head(text)), acc)

\* str.split(): the maximal runs of characters that are no whitespace
split(text) == SplitAcc(text, <<>>, <<>>)

RECURSIVE join(_)
\* " ".join(words)
join(words) ==
    IF words = <<>> THEN <<>>
    ELSE IF Len(words) = 1 THEN words[1]
    ELSE words[1] \o <<" ">> \o join(Tail(words))

\* re.sub(r'[^a-zA-Z ]', '', text)
sub_non_letters(text) == SelectSeq(text, LAMBDA c : c \in {" ", "a", "b", "B"})

\* stopwords.words('english'), restricted to the words over Chars
StopWords == {<<"a">>}

----------------------------------------------------------------------------
\* The helpers of app.py

\* Mutant: the failure of the reader is swallowed and the file read as empty.
PdfReaderRaises_swallowed(pdf) == FALSE

\* PyPDF2.PdfReader(pdf_file) raises PdfReadError on a file it cannot parse.
PdfReaderRaises(pdf) == ~pdf.ok

RECURSIVE ConcatPages(_)
ConcatPages(pages) ==
    IF pages = <<>> THEN <<>> ELSE Head(pages) \o ConcatPages(Tail(pages))

\* text = ""; for page in reader.pages: text += page.extract_text()
extract_text_from_pdf(pdf) == ConcatPages(pdf.pages)

clean_text(text) ==
    LET lowered == lower(text)
        letters == sub_non_letters(lowered)
        words   == split(letters)
        kept    == SelectSeq(words, LAMBDA w : w \notin StopWords)
    IN join(kept)

\* TfidfVectorizer's analyzer: lower-case, then the tokens of
\* r"(?u)\b\w\w+\b", the runs of two or more word characters.
Tokens(doc) == SelectSeq(split(lower(doc)), LAMBDA w : Len(w) >= 2)

Vocabulary(documents) == UNION {Range(Tokens(documents[k])) : k \in DOMAIN documents}

\* fit_transform raises ValueError("empty vocabulary; ...") when no document
\* has a token.
EmptyVocabulary(documents) == Vocabulary(documents) = {}

\* Number of documents a term occurs in.
Df(documents, t) ==
    Cardinality({k \in DOMAIN documents : Count(Tokens(documents[k]), t) > 0})

\* 10 * ln(n), rounded, for n in 1..8.
LnTenths == <<0, 7, 11, 14, 16, 18, 19, 21>>

\* smooth idf, in tenths: ln((1 + n) / (1 + df)) + 1
Idf(n, df) == 10 + LnTenths[n + 1] - LnTenths[df + 1]

\* tf-idf weight of term t in document k, before normalisation.
Weight(documents, k, t) ==
    Count(Tokens(documents[k]), t) * Idf(Len(documents), Df(documents, t))

Dot(documents, a, b) ==
    LET terms == SetToSeq(Vocabulary(documents))
    IN SumSeq([x \in DOMAIN terms |->
                  Weight(documents, a, terms[x]) * Weight(documents, b, terms[x])])

\* cosine_similarity of rows a and b of the tf-idf matrix, in thousandths; a
\* row of zeros has similarity 0 to every row.
Cosine(documents, a, b) ==
    LET d  == Dot(documents, a, b)
        na == Dot(documents, a, a)
        nb == Dot(documents, b, b)
    IN IF na = 0 \/ nb = 0 THEN 0
       ELSE Isqrt(1000 * ((1000 * d * d) \div (na * nb)))

\* tfidf_matrix[:-1] against tfidf_matrix[-1], flattened.  Mutant: the rows
\* are compared with the first document instead of the last one.
calculate_similarity_first(resume_texts, jd_text) ==
    LET documents == resume_texts \o <<jd_text>>
    IN [k \in 1..(Len(documents) - 1) |-> Cosine(documents, k, 1)]

calculate_similarity(resume_texts, jd_text) ==
    LET documents == resume_texts \o <<jd_text>>
    IN [k \in 1..(Len(documents) - 1) |-> Cosine(documents, k, Len(documents))]

\* zip(resume_names, scores)
zip(names, values) ==
    LET n == IF Len(names) <= Len(values) THEN Len(names) ELSE Len(values)
    IN [k \in 1..n |-> <<names[k], values[k]>>]

\* Mutant: a row goes before the rows of equal score (an unstable sort).
InsertByScore_unstable(row, out) ==
    LET before == {k \in DOMAIN out : out[k][2] > row[2]}
        n == Cardinality(before)
    IN SubSeq(out, 1, n) \o <<row>> \o SubSeq(out, n + 1, Len(out))

\* One insertion of the sort: out is ordered by non-increasing score, and
\* row goes after every row whose score is not smaller.
InsertByScore(row, out) ==
    LET before == {k \in DOMAIN out : out[k][2] >= row[2]}
        n == Cardinality(before)
    IN SubSeq(out, 1, n) \o <<row>> \o SubSeq(out, n + 1, Len(out))

RECURSIVE sorted(_)
\* sorted(rows, key=lambda x: x[1], reverse=True)
sorted(rows) ==
    IF rows = <<>> THEN <<>>
    ELSE InsertByScore(Last(rows), sorted(Front(rows)))

\* round(score*100, 2), in hundredths of a percent
Percent(score) == score * 10

\* for name, score in results: st.write(...)
Display(rows) == [k \in DOMAIN rows |-> <<rows[k][1], Percent(rows[k][2])>>]

\* Mutant: the job description is compared without strip().
ShouldWarn_nostrip(files, jd) == files = <<>> \/ jd = <<>>

\* not uploaded_files or job_description.strip() == ""
ShouldWarn(files, jd) == files = <<>> \/ strip(jd) = <<>>

----------------------------------------------------------------------------
\* Inputs

GoodPdf(pages) == [ok |-> TRUE, pages |-> pages]

\* A file PdfReader cannot parse.
CorruptPdf == [ok |-> FALSE, pages |-> <<>>]

UploadedFile(name, pdf) == [name |-> name, pdf |-> pdf]

\* The files a user can upload: two files of equal content under two names,
\* a file that shares its name with another one and whose first word runs
\* over two pages, a scanned file without text, and a corrupt file.
FileA == UploadedFile("a.pdf", GoodPdf(<< <<"b", "B">> >>))

FileB == UploadedFile("b.pdf", GoodPdf(<< <<"b", "B">> >>))

FileA2 == UploadedFile("a.pdf", GoodPdf(<< <<"a">>, <<"b", " ", "b", "b">> >>))

FileD == UploadedFile("d.pdf", GoodPdf(<<>>))

FileE == UploadedFile("e.pdf", CorruptPdf)

Files == {FileA, FileB, FileA2, FileD, FileE}

\* The inputs of the sessions of the concurrent specification: the files and
\* the job description.
ParInputs ==
    { << <<FileB, FileA2>>, <<"b", "b">> >>,
      << <<FileA2, FileB>>, <<"a", "b">> >>,
      << <<FileB, FileE>>, <<"b", "b">> >>,
      << <<FileB>>, <<" ">> >> }

Positions == {"idle", "loop", "score", "done", "warned", "raised"}

----------------------------------------------------------------------------
\* State

TypeOK ==
    /\ active \subseteq Sessions
    /\ uploaded_files \in [Sessions -> SeqsUpTo(Files, MaxFiles)]
    /\ \A s \in Sessions : Len(job_description[s]) <= MaxLen
    /\ pc \in [Sessions -> Positions]
    /\ error \in [Sessions -> {"none", "PdfReadError", "ValueError"}]
    /\ warning \in [Sessions -> BOOLEAN]

\* A script run that has not reached the button handler: nothing is bound
\* and nothing is on the page.
InitSession(sessions) ==
    /\ active = sessions
    /\ uploaded_files = [s \in Sessions |-> <<>>]
    /\ job_description = [s \in Sessions |-> <<>>]
    /\ pc = [s \in Sessions |-> "idle"]
    /\ file_idx = [s \in Sessions |-> 0]
    /\ resumes = [s \in Sessions |-> <<>>]
    /\ resume_names = [s \in Sessions |-> <<>>]
    /\ scores = [s \in Sessions |-> <<>>]
    /\ results = [s \in Sessions |-> <<>>]
    /\ displayed = [s \in Sessions |-> <<>>]
    /\ warning = [s \in Sessions |-> FALSE]
    /\ error = [s \in Sessions |-> "none"]
    /\ calls = [s \in Sessions |-> <<>>]

Init == InitSession({1})

InitPar == InitSession(Sessions)

\* Streamlit reruns the script of session s from the top: a new namespace and
\* an empty page.
Rerun(s, position) ==
    /\ pc' = [pc EXCEPT ![s] = position]
    /\ file_idx' = [file_idx EXCEPT ![s] = 0]
    /\ resumes' = [resumes EXCEPT ![s] = <<>>]
    /\ resume_names' = [resume_names EXCEPT ![s] = <<>>]
    /\ scores' = [scores EXCEPT ![s] = <<>>]
    /\ results' = [results EXCEPT ![s] = <<>>]
    /\ displayed' = [displayed EXCEPT ![s] = <<>>]
    /\ error' = [error EXCEPT ![s] = "none"]
    /\ calls' = [calls EXCEPT ![s] = <<>>]

----------------------------------------------------------------------------
\* Widgets: a change of a widget's value reruns the script, and the button
\* is not pressed in that run.

AddFile(s) ==
    /\ Len(uploaded_files[s]) < MaxFiles
    /\ \E f \in Files :
           uploaded_files' = [uploaded_files EXCEPT ![s] = Append(@, f)]
    /\ Rerun(s, "idle")
    /\ warning' = [warning EXCEPT ![s] = FALSE]
    /\ UNCHANGED <<active, job_description>>

RemoveFile(s) ==
    /\ \E k \in DOMAIN uploaded_files[s] :
           uploaded_files' = [uploaded_files EXCEPT ![s] =
               SubSeq(@, 1, k - 1) \o SubSeq(@, k + 1, Len(@))]
    /\ Rerun(s, "idle")
    /\ warning' = [warning EXCEPT ![s] = FALSE]
    /\ UNCHANGED <<active, job_description>>

\* The user types one more character into the text area, or deletes the
\* last one.
EditJobDescription(s) ==
    /\ \/ /\ Len(job_description[s]) < MaxLen
          /\ \E c \in TypedChars :
                 job_description' = [job_description EXCEPT ![s] = Append(@, c)]
       \/ /\ job_description[s] # <<>>
          /\ job_description' = [job_description EXCEPT ![s] = Front(@)]
    /\ Rerun(s, "idle")
    /\ warning' = [warning EXCEPT ![s] = FALSE]
    /\ UNCHANGED <<active, uploaded_files>>

\* A session of the concurrent specification sets both widgets.
LoadInputs(s) ==
    /\ \E input \in ParInputs :
           /\ uploaded_files' = [uploaded_files EXCEPT ![s] = input[1]]
           /\ job_description' = [job_description EXCEPT ![s] = input[2]]
    /\ Rerun(s, "idle")
    /\ warning' = [warning EXCEPT ![s] = FALSE]
    /\ UNCHANGED active

----------------------------------------------------------------------------
\* The button handler

\* if st.button(...): the guard, then either the warning or the two empty
\* lists and the first file of the loop.
Press(s) ==
    /\ pc[s] \in {"idle", "done", "warned", "raised"}
    /\ IF ShouldWarn(uploaded_files[s], job_description[s])
       THEN /\ Rerun(s, "warned")
            /\ warning' = [warning EXCEPT ![s] = TRUE]
       ELSE /\ Rerun(s, "loop")
            /\ warning' = [warning EXCEPT ![s] = FALSE]
    /\ UNCHANGED <<active, uploaded_files, job_description>>

\* Mutant: the list of cleaned texts is one list shared by all sessions.
AppendResume_shared(all, s, cleaned_text) ==
    [t \in DOMAIN all |-> Append(all[t], cleaned_text)]

\* resumes.append(cleaned_text)
AppendResume(all, s, cleaned_text) == [all EXCEPT ![s] = Append(@, cleaned_text)]

\* One iteration of `for file in uploaded_files`.
ProcessFile(s) ==
    /\ pc[s] = "loop"
    /\ LET k    == file_idx[s] + 1
           file == uploaded_files[s][k]
       IN IF PdfReaderRaises(file.pdf)
          THEN /\ pc' = [pc EXCEPT ![s] = "raised"]
               /\ error' = [error EXCEPT ![s] = "PdfReadError"]
               /\ UNCHANGED <<file_idx, resumes, resume_names, calls>>
          ELSE LET text == extract_text_from_pdf(file.pdf)
                   cleaned_text == clean_text(text)
               IN /\ resumes' = AppendResume(resumes, s, cleaned_text)
                  /\ resume_names' = [resume_names EXCEPT ![s] = Append(@, file.name)]
                  /\ calls' = [calls EXCEPT ![s] =
                         @ \o << <<"extract_text_from_pdf", k>>, <<"clean_text", k>> >>]
                  /\ file_idx' = [file_idx EXCEPT ![s] = k]
                  /\ pc' = [pc EXCEPT ![s] =
                         IF k = Len(uploaded_files[s]) THEN "score" ELSE "loop"]
                  /\ UNCHANGED error
    /\ UNCHANGED <<active, uploaded_files, job_description, scores, results,
                   displayed, warning>>

\* The rest of the else branch: clean the job description, score, sort and
\* write the rows.
ScoreAndDisplay(s) ==
    /\ pc[s] = "score"
    /\ LET cleaned_jd == clean_text(job_description[s])
       IN IF EmptyVocabulary(resumes[s] \o <<cleaned_jd>>)
          THEN /\ pc' = [pc EXCEPT ![s] = "raised"]
               /\ error' = [error EXCEPT ![s] = "ValueError"]
               /\ calls' = [calls EXCEPT ![s] = Append(@, <<"clean_text", 0>>)]
               /\ UNCHANGED <<scores, results, displayed>>
          ELSE LET sc  == calculate_similarity(resumes[s], cleaned_jd)
                   res == sorted(zip(resume_names[s], sc))
               IN /\ scores' = [scores EXCEPT ![s] = sc]
                  /\ results' = [results EXCEPT ![s] = res]
                  /\ displayed' = [displayed EXCEPT ![s] = Display(res)]
                  /\ calls' = [calls EXCEPT ![s] =
                         @ \o << <<"clean_text", 0>>, <<"calculate_similarity", 0>> >>]
                  /\ pc' = [pc EXCEPT ![s] = "done"]
                  /\ UNCHANGED error
    /\ UNCHANGED <<active, uploaded_files, job_description, file_idx, resumes,
                   resume_names, warning>>

Next ==
    \E s \in active :
        \/ AddFile(s)
        \/ RemoveFile(s)
        \/ EditJobDescription(s)
        \/ Press(s)
        \/ ProcessFile(s)
        \/ ScoreAndDisplay(s)

Spec == Init /\ [][Next]_vars

NextPar ==
    \E s \in active :
        \/ LoadInputs(s)
        \/ Press(s)
        \/ ProcessFile(s)
        \/ ScoreAndDisplay(s)

SpecPar == InitPar /\ [][NextPar]_vars

----------------------------------------------------------------------------
\* What a run is expected to do, stated from its inputs alone

Blank(jd) == \A k \in DOMAIN jd : jd[k] = " "

CleanedResume(file) == clean_text(extract_text_from_pdf(file.pdf))

\* The documents handed to the vectorizer: the cleaned resumes in upload
\* order, then the cleaned job description.
DocumentsOf(files, jd) ==
    [k \in DOMAIN files |-> CleanedResume(files[k])] \o <<clean_text(jd)>>

CorruptAt(files) == {k \in DOMAIN files : ~files[k].pdf.ok}

FirstCorrupt(files) == CHOOSE k \in CorruptAt(files) : \A j \in CorruptAt(files) : k <= j

\* The exception of the first library call that fails, "none" if none does.
ExpectedError(files, jd) ==
    IF CorruptAt(files) # {} THEN "PdfReadError"
    ELSE IF \A k \in DOMAIN DocumentsOf(files, jd) : Tokens(DocumentsOf(files, jd)[k]) = <<>>
         THEN "ValueError"
         ELSE "none"

\* The rows in upload order, each name with the similarity of its own text
\* to the job description.
RowsInUploadOrder(files, jd) ==
    LET documents == DocumentsOf(files, jd)
    IN [k \in DOMAIN files |->
           <<files[k].name, Percent(Cosine(documents, k, Len(documents)))>>]

\* The end of a run as a function of its inputs: position, exception, rows.
Outcome(files, jd) ==
    IF files = <<>> \/ Blank(jd) THEN <<"warned", "none", <<>> >>
    ELSE IF ExpectedError(files, jd) # "none"
         THEN <<"raised", ExpectedError(files, jd), <<>> >>
         ELSE <<"done", "none",
                Display(sorted(zip([k \in DOMAIN files |-> files[k].name],
                                   calculate_similarity(
                                       [k \in DOMAIN files |-> CleanedResume(files[k])],
                                       clean_text(jd)))))>>

Ended(s) == pc[s] \in {"done", "warned", "raised"}

NoCallTwice(s) == \A a, b \in DOMAIN calls[s] : calls[s][a] = calls[s][b] => a = b

\* Every uploaded file was extracted, cleaned and scored.
AllProcessed(s) ==
    /\ \A k \in DOMAIN uploaded_files[s] :
           /\ <<"extract_text_from_pdf", k>> \in Range(calls[s])
           /\ <<"clean_text", k>> \in Range(calls[s])
    /\ <<"calculate_similarity", 0>> \in Range(calls[s])
    /\ Len(resumes[s]) = Len(uploaded_files[s])
    /\ Len(scores[s]) = Len(uploaded_files[s])

NothingProcessed(s) ==
    /\ calls[s] = <<>>
    /\ resumes[s] = <<>>
    /\ scores[s] = <<>>
    /\ results[s] = <<>>
    /\ displayed[s] = <<>>

\* Everything session s owns.
SessionState(s) ==
    <<uploaded_files[s], job_description[s], pc[s], file_idx[s], resumes[s],
      resume_names[s], scores[s], results[s], displayed[s], warning[s],
      error[s], calls[s]>>

----------------------------------------------------------------------------
\* C3

\* C3 as stated: a run that ends in an error (the warning or an exception)
\* has produced no result and has performed no computation at all.
C3_NoPartialComputation ==
    \A s \in active :
        pc[s] \in {"warned", "raised"} =>
            /\ displayed[s] = <<>>
            /\ results[s] = <<>>
            /\ calls[s] = <<>>

C3_ErrorState(s) ==
    /\ pc[s] = "warned" =>
           /\ warning[s]
           /\ error[s] = "none"
           /\ NothingProcessed(s)
    /\ pc[s] = "raised" =>
           /\ error[s] = ExpectedError(uploaded_files[s], job_description[s])
           /\ error[s] # "none"
           /\ ~warning[s]
           /\ scores[s] = <<>> /\ results[s] = <<>> /\ displayed[s] = <<>>
           /\ NoCallTwice(s)
           /\ error[s] = "PdfReadError" =>
                  /\ file_idx[s] = FirstCorrupt(uploaded_files[s]) - 1
                  /\ Len(calls[s]) = 2 * file_idx[s]
           /\ error[s] = "ValueError" =>
                  Len(calls[s]) = 2 * Len(uploaded_files[s]) + 1
    /\ pc[s] = "done" =>
           /\ error[s] = "none"
           /\ ExpectedError(uploaded_files[s], job_description[s]) = "none"
    /\ error[s] # "none" => pc[s] = "raised"

C3_ErrorStep(s) ==
    pc[s] \in {"warned", "raised"} =>
        \/ SessionState(s)' = SessionState(s)
        \/ /\ pc'[s] \in {"idle", "loop", "warned"}
           /\ calls'[s] = <<>>
           /\ file_idx'[s] = 0
           /\ error'[s] = "none"

\* C3, amended: an error ends the run.  The first error met is the one
\* surfaced (the warning of the guard, else the exception of the first
\* corrupt PDF, else the vectorizer's exception), unchanged; no row and no
\* score is produced; no helper call is made twice; and the run goes on only
\* as a new run from the top.  The files before a corrupt one have been
\* extracted and cleaned by then.
C3_ErrorsTerminal ==
    /\ [](\A s \in active : C3_ErrorState(s))
    /\ [][\A s \in active : C3_ErrorStep(s)]_vars

\* A run that raised on its second file, after the first was processed.
C3_Witness ==
    \E s \in active :
        /\ pc[s] = "raised"
        /\ error[s] = "PdfReadError"
        /\ Len(calls[s]) = 2
        /\ Len(resumes[s]) = 1

----------------------------------------------------------------------------
\* C8

\* C8 as stated: with no file or a blank job description a run ends in the
\* warning and does nothing else; every other run extracts, cleans and
\* scores every uploaded file.
C8_GuardThenAllProcessed ==
    \A s \in active :
        Ended(s) =>
            IF uploaded_files[s] = <<>> \/ Blank(job_description[s])
            THEN pc[s] = "warned" /\ warning[s] /\ NothingProcessed(s)
            ELSE AllProcessed(s)

\* C8, amended: with no file or a blank job description a run shows the
\* warning and extracts, cleans, scores and displays nothing; every other
\* run enters the loop without a warning, and extracts, cleans and scores
\* every uploaded file unless a library call raises (a corrupt PDF, or no
\* document with a token), in which case it ends with that exception.
C8_GuardThenProcessed ==
    \A s \in active :
        pc[s] # "idle" =>
            IF uploaded_files[s] = <<>> \/ Blank(job_description[s])
            THEN pc[s] = "warned" /\ warning[s] /\ NothingProcessed(s)
            ELSE /\ pc[s] # "warned"
                 /\ ~warning[s]
                 /\ Ended(s) =>
                        IF ExpectedError(uploaded_files[s], job_description[s]) = "none"
                        THEN pc[s] = "done" /\ AllProcessed(s)
                        ELSE pc[s] = "raised" /\ error[s] # "none"

\* A finished run whose job description is not blank but cleans to the
\* empty string.
C8_Witness ==
    \E s \in active :
        /\ pc[s] = "done"
        /\ ~Blank(job_description[s])
        /\ clean_text(job_description[s]) = <<>>
        /\ AllProcessed(s)

----------------------------------------------------------------------------
\* C9

\* C9: the displayed rows are in non-increasing order of score, and the rows
\* of one score are in the order of upload.
C9_SortedStable ==
    \A s \in active :
        pc[s] = "done" =>
            LET uploaded == Display(zip([k \in DOMAIN uploaded_files[s] |->
                                            uploaded_files[s][k].name], scores[s]))
            IN /\ \A a, b \in DOMAIN displayed[s] :
                      a < b => displayed[s][a][2] >= displayed[s][b][2]
               /\ \A v \in {uploaded[k][2] : k \in DOMAIN uploaded} :
                      SelectSeq(displayed[s], LAMBDA row : row[2] = v)
                          = SelectSeq(uploaded, LAMBDA row : row[2] = v)

\* Two files of different names and equal score, displayed in upload order.
C9_Witness ==
    \E s \in active :
        /\ pc[s] = "done"
        /\ Len(displayed[s]) = 2
        /\ displayed[s][1][2] = displayed[s][2][2]
        /\ displayed[s][1][2] > 0
        /\ displayed[s][1][1] # displayed[s][2][1]

----------------------------------------------------------------------------
\* C10

\* C10: resume_names and resumes grow together, entry k being the name and
\* the cleaned text of the k-th upload; when the rows are displayed there is
\* one score per upload, the k-th score being the similarity of the k-th
\* upload's text to the job description, and the rows are a permutation of
\* the (name, score) pairs of the uploads, so the job description is no row.
C10_RowsAligned ==
    \A s \in active :
        /\ Len(resumes[s]) = Len(resume_names[s])
        /\ Len(resume_names[s]) = file_idx[s]
        /\ \A k \in DOMAIN resume_names[s] :
               /\ resume_names[s][k] = uploaded_files[s][k].name
               /\ resumes[s][k] = CleanedResume(uploaded_files[s][k])
        /\ pc[s] = "done" =>
               LET rows == RowsInUploadOrder(uploaded_files[s], job_description[s])
               IN /\ Len(scores[s]) = Len(uploaded_files[s])
                  /\ Len(displayed[s]) = Len(uploaded_files[s])
                  /\ \A k \in DOMAIN scores[s] : Percent(scores[s][k]) = rows[k][2]
                  /\ \A row \in Range(rows) \cup Range(displayed[s]) :
                         Count(displayed[s], row) = Count(rows, row)

\* Two uploads of one name and different scores, both displayed.
C10_Witness ==
    \E s \in active :
        /\ pc[s] = "done"
        /\ Len(uploaded_files[s]) = 2
        /\ uploaded_files[s][1].name = uploaded_files[s][2].name
        /\ displayed[s][1][2] # displayed[s][2][2]
        /\ displayed[s][1][1] = displayed[s][2][1]

----------------------------------------------------------------------------
\* C6

C6_OwnInputsOnly(s) ==
    Ended(s) =>
        <<pc[s], error[s], displayed[s]>>
            = Outcome(uploaded_files[s], job_description[s])

\* C6: a run's outcome (warning, exception or displayed rows) is a function
\* of its own session's files and job description, whatever the other
\* sessions do in between, and no step changes the state of two sessions.
C6_InvocationsIndependent ==
    /\ [](\A s \in active : C6_OwnInputsOnly(s))
    /\ [][\A s, t \in active :
             s # t => \/ SessionState(s)' = SessionState(s)
                      \/ SessionState(t)' = SessionState(t)]_vars

\* One session has displayed its rows while another one, with other inputs,
\* is in the middle of its loop.
C6_Witness ==
    \E s, t \in active :
        /\ s # t
        /\ pc[s] = "done"
        /\ pc[t] = "loop"
        /\ resumes[t] # <<>>
        /\ uploaded_files[s] # uploaded_files[t]

====
